---- MODULE Spec2Model ----
(***************************************************************************)
(* bugguide-chat: the export filter (bgc/export_comments.py) and the       *)
(* import crawl (bgc/import_comments.py) as state machines.                *)
(*                                                                         *)
(* Text is a sequence of one-character strings, so that slicing and the    *)
(* regular expression of filter_record are computed character by           *)
(* character.  `args` is the options namespace the functions read and      *)
(* write as a module global.                                               *)
(***************************************************************************)
EXTENDS Integers, Sequences, FiniteSets, TLC

(* ------------------------------ bounds --------------------------------- *)

\* longest text after the "Moved from" prefix of a comment body under test
MaxTail == 3
\* sections in a snapshot given to export
MaxSecs == 1
\* records in one section of a snapshot given to export
MaxRecs == 2

\* list pages in the listing a crawl walks
MaxPages == 2
\* groups of record links on one list page
MaxGroups == 2

\* numbered versions of the output name that can exist already
MaxVer == 2

\* the longest width attribute of an indent cell, in digits
MaxDigits == 2

\* the most child nodes of a title node
MaxNodes == 3

(* ------------------------------- text ---------------------------------- *)

Min(a, b) == IF a < b THEN a ELSE b

\* s[:n] of Python for n >= 0
Take(s, n) == SubSeq(s, 1, Min(n, Len(s)))

\* str.lower() on the letters the texts of the model use
Lower(ch) ==
    CASE ch = "M" -> "m" [] ch = "O" -> "o" [] ch = "V" -> "v"
      [] ch = "E" -> "e" [] ch = "D" -> "d" [] ch = "F" -> "f"
      [] ch = "R" -> "r" [] ch = "A" -> "a" [] OTHER -> ch

\* the characters \s matches, among those the texts of the model use
Whitespace == {" ", "\t", "\n", "\r"}

\* the literal head of the pattern 'Moved from .+\.\s*$'
MovedFrom == <<"M", "o", "v", "e", "d", " ", "f", "r", "o", "m", " ">>

\* $ without re.M: at the end of the text, or just before a final newline
AtEnd(s, j) ==
    \/ j = Len(s)
    \/ j = Len(s) - 1 /\ s[Len(s)] = "\n"

\* the same match without flags=re.I
ReMatchMoveCased(s) ==
    LET h == Len(MovedFrom) IN
    /\ Len(s) >= h
    /\ \A k \in 1..h : s[k] = MovedFrom[k]
    /\ \E i \in (h + 2)..Len(s) :
          /\ \A k \in (h + 1)..(i - 1) : s[k] # "\n"
          /\ s[i] = "."
          /\ \E j \in i..Len(s) :
                /\ \A k \in (i + 1)..j : s[k] \in Whitespace
                /\ AtEnd(s, j)

\* re.match('Moved from .+\.\s*$', s, flags=re.I) is not None.
\* i is the position of the escaped period, j the last position \s* consumes.
ReMatchMove(s) ==
    LET h == Len(MovedFrom) IN
    /\ Len(s) >= h
    /\ \A k \in 1..h : Lower(s[k]) = Lower(MovedFrom[k])
    /\ \E i \in (h + 2)..Len(s) :
          /\ \A k \in (h + 1)..(i - 1) : s[k] # "\n"
          /\ s[i] = "."
          /\ \E j \in i..Len(s) :
                /\ \A k \in (i + 1)..j : s[k] \in Whitespace
                /\ AtEnd(s, j)

(* ----------------------------- comments -------------------------------- *)

\* the loop body of filter_record that adds the styling metadata
Annotate(c) ==
    [subj      |-> IF Take(c.body, Len(c.subj)) = c.subj THEN <<>> ELSE c.subj,
     body      |-> c.body,
     byline    |-> c.byline,
     depth     |-> c.depth,
     highlight |-> ~ReMatchMove(c.body)]

AnnotateAll(comms) == [k \in 1..Len(comms) |-> Annotate(comms[k])]

IsMarked(c) == c.highlight

(* ------------------------------ options -------------------------------- *)

\* the values argparse gives --ignore-moves; "None" is the unset option
Policies == {"None", "always", "nochat"}

\* --ignore-moves is truthy
PolicySet(a) == a.ignore_moves # "None"

(* ------------------------------ console -------------------------------- *)

\* one line printed for a record: what happened, to how many comments
Ev(type, n, src) == [type |-> type, n |-> n, src |-> src]

\* log_comments(comms, src, type): silent on an empty list
log_comments(comms, src, type) ==
    IF comms = <<>> THEN <<>> ELSE <<Ev(type, Len(comms), src)>>

(* ----------------------------- screening ------------------------------- *)

\* what input() hands back after .strip().lower(), once the loop that
\* rejects unknown commands has let it through
Commands ==
    { <<"y">>, <<"y", "e", "s">>, <<"n">>, <<"n", "o">>,
      <<"a">>, <<"a", "u", "t", "o">>, <<"q">>, <<"q", "u", "i", "t">> }

\* input() raising KeyboardInterrupt instead of returning a line
CtrlC == <<"^C">>

Inputs == Commands \cup {CtrlC}

\* the answer 'a' that leaves screening on
AutoKeepsScreening(a) == [a EXCEPT !.verbose = FALSE]

\* the answer 'a': args.screen = False, args.verbose = False
AutoExport(a) == [a EXCEPT !.screen = FALSE, !.verbose = FALSE]

\* screen_record(rec): ret is "rec" or "None", raised the exception that
\* leaves the function, args the options after the call
screen_record(rec, a, cmd) ==
    LET shown == log_comments(rec.comments, rec.url, "screen")
        n     == Len(rec.comments)
    IN  IF cmd = CtrlC
          THEN [ret |-> "None", raised |-> "KeyboardInterrupt", args |-> a,
                console |-> shown]
        ELSE IF cmd[1] = "y"
          THEN [ret |-> "rec", raised |-> "none", args |-> a,
                console |-> shown \o <<Ev("exporting", n, rec.url)>>]
        ELSE IF cmd[1] = "n"
          THEN [ret |-> "None", raised |-> "none", args |-> a,
                console |-> shown \o <<Ev("skipped", n, rec.url)>>]
        ELSE IF cmd[1] = "a"
          THEN [ret |-> "None", raised |-> "none",
                args |-> AutoExport(a),
                console |-> shown]
        ELSE [ret |-> "None", raised |-> "SystemExit", args |-> a,
              console |-> shown]

(* ------------------------------ filtering ------------------------------ *)

\* an empty list that is not found empty
NoCommentsNever(rec) == FALSE

\* `not rec['comments']`
NoComments(rec) == rec.comments = <<>>

Marked(styled) == SelectSeq(styled, IsMarked)

Unmarked(styled) == SelectSeq(styled, LAMBDA c : ~IsMarked(c))

\* the discard that only 'always' triggers
AllMovesAlwaysOnly(a, marked) == a.ignore_moves = "always" /\ marked = <<>>

\* no record is discarded for its move notices
AllMovesNever(a, marked) == FALSE

\* `if args.ignore_moves:` ... `if not marked:` -- discard the record
AllMoves(a, marked) == PolicySet(a) /\ marked = <<>>

\* the narrowing left out
KeptUnnarrowed(a, styled) == styled

\* the narrowing under either value of the option
KeptNarrowedIfSet(a, styled) == IF PolicySet(a) THEN Marked(styled) ELSE styled

\* the narrowing whatever the option
KeptNarrowed(a, styled) == Marked(styled)

\* `if args.ignore_moves == "always": rec['comments'] = marked`
Kept(a, styled) ==
    IF a.ignore_moves = "always" THEN Marked(styled) ELSE styled

\* filter_record(rec) under the options a, with cmd the answer the user
\* gives if asked.  rec is the record object after the call (it is changed
\* in place), ret what the call returns, prompted whether the user was asked.
filter_record(rec, a, cmd) ==
    IF NoComments(rec)
      THEN [rec |-> rec, ret |-> "None", raised |-> "none", args |-> a,
            prompted |-> FALSE,
            console |-> <<Ev("nocomments", 0, rec.url)>>]
    ELSE
      LET styled == AnnotateAll(rec.comments)
          rec1   == [rec EXCEPT !.comments = styled]
      IN  IF AllMoves(a, Marked(styled))
            THEN [rec |-> rec1, ret |-> "None", raised |-> "none", args |-> a,
                  prompted |-> FALSE,
                  console |-> log_comments(styled, rec.url, "skip")]
          ELSE
            LET rec2 == [rec1 EXCEPT !.comments = Kept(a, styled)]
                log1 == IF a.ignore_moves = "always"
                          THEN log_comments(Unmarked(styled), rec.url, "skip")
                          ELSE <<>>
                done == log_comments(rec2.comments, rec.url, "import")
            IN  IF a.screen
                  THEN LET s == screen_record(rec2, a, cmd)
                       IN  IF s.raised # "none"
                             THEN [rec |-> rec2, ret |-> "None",
                                   raised |-> s.raised, args |-> s.args,
                                   prompted |-> TRUE,
                                   console |-> log1 \o s.console]
                           ELSE [rec |-> rec2, ret |-> "rec",
                                 raised |-> "none", args |-> s.args,
                                 prompted |-> TRUE,
                                 console |-> log1 \o s.console \o done]
                ELSE [rec |-> rec2, ret |-> "rec", raised |-> "none",
                      args |-> a, prompted |-> FALSE,
                      console |-> log1 \o done]

(* ------------------------------- state --------------------------------- *)

VARIABLES
    args,       \* the options namespace (module global)
    context,    \* the snapshot: [sections |-> <<section, ...>>]
    sec_idx,    \* export_taxon: position of the outer loop (from 1)
    rec_idx,    \* export_taxon: position of the inner loop (from 1)
    filtered,   \* export_taxon: records of the current section kept so far
    fout,       \* the output file: the renders written to it
    last_call,  \* the latest call of filter_record: arguments and outcome
                \* (cmd is the first character of what the user typed,
                \* console the lines the call printed)
    declined,   \* the url of the record the user last answered 'no' for
    accepted,   \* the records filter_record has returned, in call order
    comment,    \* the comment dict the styling loop is working on
    url,        \* import_taxon: the list page to do next (0 is None)
    soup,       \* import_taxon: the parsed list page at hand
    grp,        \* process_list_page: position in page_sections (from 1)
    item,       \* process_list_page: position in the group's links (from 1)
    f,          \* the snapshot file: the dumps written to it
    trail,      \* the breadcrumbs of the groups met so far, in order
    imgcap,     \* import_taxon: the image budget the crawl started with
    pgcap,      \* import_taxon: the page budget the crawl started with
    net,        \* the last two things done on the network: fetch or sleep
    paged,      \* the numbers of the list pages completed so far, in order
    said,       \* what was printed about why the crawl ended
    files,      \* the names that exist in the output directory
    ver,        \* naming loop: the next disambiguator
    vername,    \* naming loop: the candidate name
    file_name,  \* the output path chosen (empty until chosen)
    written,    \* the paths this run has created or opened for writing
    seen,       \* the urls of the record pages visited and parsed, in order
    listing,    \* list_snapshots: how the summary of the latest dump came out
    ctag,       \* parse_comment: the comment node given
    title_tag,  \* parse_record: the children of the copy of the title node
    rdict,      \* parse_record: the dict being built
    pc          \* where the running function is

vars == <<args, context, sec_idx, rec_idx, filtered, fout, declined, accepted,
          last_call, comment, url, soup, grp, item, f, trail, imgcap, pgcap,
          net, paged, said, files, ver, vername, file_name, written, seen,
          listing, ctag, title_tag, rdict, pc>>

exportVars == <<sec_idx, rec_idx, filtered, fout, last_call, declined,
                accepted>>

importVars == <<url, soup, grp, item, f, trail, imgcap, pgcap, net, paged,
                said, seen, listing>>

nameVars == <<files, ver, vername, file_name, written>>

parseVars == <<ctag, title_tag, rdict>>

\* a list page: its number in the listing, its groups of record links, and
\* whether it shows a next arrow
Page(no, groups, next) == [no |-> no, groups |-> groups, next |-> next]

NoPage == Page(0, <<>>, FALSE)

\* no call of filter_record yet
NoCall ==
    [url |-> 0, before |-> <<>>, after |-> <<>>, policy |-> "None",
     screen |-> FALSE, prompted |-> FALSE, cmd |-> "", ret |-> "None",
     raised |-> "none", console |-> <<>>]

NoComment == [subj |-> <<>>, body |-> <<>>, byline |-> "", depth |-> 0]

\* list_snapshots has not looked at a snapshot
NoListing ==
    [raised |-> "none", printed |-> FALSE, total_recs |-> 0,
     recs_with_comments |-> 0, sections |-> <<>>]

\* no crawl is running
NoCrawl ==
    /\ url = 0 /\ soup = NoPage
    /\ grp = 1 /\ item = 1 /\ f = <<>> /\ trail = <<>>
    /\ imgcap = -1 /\ pgcap = -1 /\ net = <<>> /\ paged = <<>> /\ said = <<>>
    /\ seen = <<>> /\ listing = NoListing

\* no output name is being chosen
NoNaming ==
    /\ files = {} /\ ver = 1 /\ vername = <<>> /\ file_name = <<>>
    /\ written = {}

\* nothing is being parsed
NoParse ==
    /\ ctag = [nested |-> FALSE, width |-> <<>>]
    /\ title_tag = <<>>
    /\ rdict = [title |-> <<>>]

SeqsUpTo(S, n) == UNION { [1..k -> S] : k \in 0..n }

Range(s) == { s[k] : k \in 1..Len(s) }

(* --------------------------- snapshot contents ------------------------- *)

\* an editor's move notice; the site echoed the body into the blank subject
cMove ==
    [subj   |-> <<"M", "o", "v", "e", "d">>,
     body   |-> <<"M", "o", "v", "e", "d", " ", "f", "r", "o", "m", " ", "A", ".">>,
     byline |-> "ed", depth |-> 0]

\* a reply with a subject of its own
cChat ==
    [subj   |-> <<"R", "e">>,
     body   |-> <<"N", "i", "c", "e">>,
     byline |-> "bob", depth |-> 1]

\* comment threads of a record page: none, moves only, interleaved
Threads == { <<>>, <<cMove>>, <<cMove, cChat, cMove>> }

\* a section dict as process_list_page builds it
Section(title, src, records) ==
    [title |-> title, rank |-> "species", taxon |-> title,
     own_page |-> title, parent_page |-> src, records |-> records]

\* a record dict as parse_record builds it (the fields filtering reads)
Record(u, comments) == [url |-> u, comments |-> comments]

SectionTitles == <<"A", "B", "C", "D">>

\* the snapshots json.load can hand to export_taxon
Snapshots ==
    { [sections |->
          [i \in 1..Len(ss) |->
              Section(SectionTitles[i], 1,
                      [j \in 1..Len(ss[i]) |-> Record(10 * i + j, ss[i][j])])]]
      : ss \in SeqsUpTo(SeqsUpTo(Threads, MaxRecs), MaxSecs) }

(* ------------------------------- export -------------------------------- *)

InitExport ==
    /\ args \in [ignore_moves : Policies, screen : BOOLEAN, verbose : {TRUE},
                 imgcount : {-1}, pgcount : {-1}]
    /\ context \in Snapshots
    /\ sec_idx = 1
    /\ rec_idx = 1
    /\ filtered = <<>>
    /\ fout = <<>>
    /\ declined = 0
    /\ accepted = <<>>
    /\ last_call = NoCall
    /\ comment = NoComment
    /\ NoCrawl
    /\ NoNaming
    /\ NoParse
    /\ pc = "filter"

CurSec == context.sections[sec_idx]

\* rec was changed in place: the section's list holds the same object
WithRecord(ctx, rec) ==
    [ctx EXCEPT !.sections[sec_idx].records[rec_idx] = rec]

\* the except clause of export_taxon (sec_idx counts from 1 here)
Truncate(ctx) ==
    IF filtered # <<>>
      THEN [ctx EXCEPT !.sections =
               SubSeq([ctx.sections EXCEPT ![sec_idx].records = filtered],
                      1, sec_idx)]
      ELSE [ctx EXCEPT !.sections = SubSeq(ctx.sections, 1, sec_idx - 1)]

\* what the user can type during the call: nothing unless the call asks
Answers(rec, a) ==
    IF filter_record(rec, a, <<"y">>).prompted THEN Inputs ELSE {<<>>}

\* one pass of the inner loop: filter_record on the next record, then either
\* the append, or the way out through the except and finally clauses
ExportRecord ==
    /\ pc = "filter"
    /\ sec_idx <= Len(context.sections)
    /\ rec_idx <= Len(CurSec.records)
    /\ \E cmd \in Answers(CurSec.records[rec_idx], args) :
         LET rec == CurSec.records[rec_idx]
             r   == filter_record(rec, args, cmd)
             ctx == WithRecord(context, r.rec)
         IN  /\ args' = r.args
             /\ declined' = IF r.prompted /\ r.raised = "none" /\ cmd[1] = "n"
                              THEN rec.url ELSE declined
             /\ accepted' = IF r.raised = "none" /\ r.ret = "rec"
                              THEN Append(accepted, r.rec) ELSE accepted
             /\ last_call' =
                    [url |-> rec.url, before |-> rec.comments,
                     after |-> r.rec.comments, policy |-> args.ignore_moves,
                     screen |-> args.screen, prompted |-> r.prompted,
                     cmd |-> IF cmd = <<>> THEN "" ELSE cmd[1],
                     ret |-> r.ret, raised |-> r.raised,
                     console |-> r.console]
             /\ IF r.raised = "none"
                  THEN /\ filtered' = IF r.ret = "rec"
                                        THEN Append(filtered, r.rec)
                                        ELSE filtered
                       /\ rec_idx' = rec_idx + 1
                       /\ context' = ctx
                       /\ UNCHANGED <<fout, pc>>
                ELSE IF r.raised = "SystemExit"
                  THEN /\ context' = Truncate(ctx)
                       /\ fout' = Append(fout, Truncate(ctx))
                       /\ pc' = "aborted"
                       /\ UNCHANGED <<filtered, rec_idx>>
                ELSE   /\ context' = ctx
                       /\ fout' = Append(fout, ctx)
                       /\ pc' = "aborted"
                       /\ UNCHANGED <<filtered, rec_idx>>
    /\ UNCHANGED <<sec_idx, comment>>
    /\ UNCHANGED importVars
    /\ UNCHANGED nameVars
    /\ UNCHANGED parseVars

\* a section that kept nothing is taken out of the list
CloseOrDropSection(sections, i, kept) ==
    IF kept = <<>>
      THEN SubSeq(sections, 1, i - 1) \o SubSeq(sections, i + 1, Len(sections))
      ELSE [sections EXCEPT ![i].records = kept]

\* `sec['records'] = filtered` for the i-th section of the list
CloseSection(sections, i, kept) == [sections EXCEPT ![i].records = kept]

\* the inner loop is exhausted: sec['records'] = filtered, next section
EndSection ==
    /\ pc = "filter"
    /\ sec_idx <= Len(context.sections)
    /\ rec_idx > Len(CurSec.records)
    /\ context' = [context EXCEPT !.sections = CloseSection(@, sec_idx, filtered)]
    /\ sec_idx' = sec_idx + 1
    /\ rec_idx' = 1
    /\ filtered' = <<>>
    /\ UNCHANGED <<args, fout, last_call, declined, accepted, comment, pc>>
    /\ UNCHANGED importVars
    /\ UNCHANGED nameVars
    /\ UNCHANGED parseVars

\* the outer loop is exhausted: the finally clause renders the context
FinishExport ==
    /\ pc = "filter"
    /\ sec_idx > Len(context.sections)
    /\ fout' = Append(fout, context)
    /\ pc' = "done"
    /\ UNCHANGED <<args, context, sec_idx, rec_idx, filtered, declined,
                   accepted, last_call, comment>>
    /\ UNCHANGED importVars
    /\ UNCHANGED nameVars
    /\ UNCHANGED parseVars

NextExport == ExportRecord \/ EndSection \/ FinishExport

SpecExport == InitExport /\ [][NextExport]_vars

(* ---------------------------- comment styling ------------------------- *)

\* what can stand where the pattern expects "Moved from "
Heads ==
    { <<>>,
      MovedFrom,
      <<"m", "O", "V", "E", "D", " ", "F", "R", "o", "m", " ">>,
      Take(MovedFrom, 10),
      <<" ">> \o MovedFrom }

TailChars == {"a", ".", " ", "\n"}

Bodies == { h \o t : h \in Heads, t \in SeqsUpTo(TailChars, MaxTail) }

Subjects == { <<>>, <<"M", "o">>, <<"R", "e">> }

RawComments ==
    { [subj |-> s, body |-> b, byline |-> "ed", depth |-> 0]
      : s \in Subjects, b \in Bodies }

InitStyle ==
    /\ comment \in RawComments
    /\ pc = "raw"
    /\ args = [ignore_moves |-> "None", screen |-> FALSE, verbose |-> FALSE,
               imgcount |-> -1, pgcount |-> -1]
    /\ context = [sections |-> <<>>]
    /\ sec_idx = 1 /\ rec_idx = 1 /\ filtered = <<>> /\ fout = <<>>
    /\ declined = 0 /\ last_call = NoCall /\ accepted = <<>>
    /\ NoCrawl
    /\ NoNaming
    /\ NoParse

\* one pass of the styling loop of filter_record
StyleComment ==
    /\ pc = "raw"
    /\ comment' = Annotate(comment)
    /\ pc' = "styled"
    /\ UNCHANGED <<args, context>>
    /\ UNCHANGED exportVars
    /\ UNCHANGED importVars
    /\ UNCHANGED nameVars
    /\ UNCHANGED parseVars

NextStyle == StyleComment

SpecStyle == InitStyle /\ [][NextStyle]_vars

(* ------------------------------- import -------------------------------- *)

\* the breadcrumb paths a group can show
Breadcrumbs == {"A", "B"}

\* a group of a list page: its breadcrumbs and how many record links it has
Group(title, nitems) == [title |-> title, nitems |-> nitems]

\* the groups a list page can show: with two links, one link, no link
Groups == { Group("A", 2), Group("B", 1), Group("B", 0) }

\* what make_soup can return for list page n; the last page has no arrow
Pages(n) ==
    { Page(n, g, nx) : g \in SeqsUpTo(Groups, MaxGroups),
                       nx \in IF n < MaxPages THEN BOOLEAN ELSE {FALSE} }

\* --imgcount and --pgcount: the default, or a budget
ImgBudgets == {-1, 2}

PgBudgets == {-1, 1, 2}

\* the page counter is not followed below this
MinCount == 0 - (MaxPages + 2)

\* how a fetch can end
Fetches == {"ok", "error", "interrupt"}

\* the record parse_record builds from the page behind the link
RecordAt(u) == Record(u, IF u % 2 = 0 THEN <<>> ELSE <<cChat>>)

\* the network log after one more operation (the last two are kept)
Did(log, op) == IF log = <<>> THEN <<op>> ELSE <<log[Len(log)], op>>

\* `sleep(9)` and then `make_soup(record_url)`
VisitDelayed(log) == Did(Did(log, "sleep"), "fetch")

\* `soup = make_soup(url)` at the top of the loop
TurnPage(log) == Did(log, "fetch")

\* an image counter that is never taken from
SpendNoImage(a) == a

\* `args.imgcount -= 1`
SpendImage(a) == [a EXCEPT !.imgcount = @ - 1]

\* a page counter that is never taken from
SpendNoPage(a) == a

\* `args.pgcount -= 1`
SpendPage(a) == [a EXCEPT !.pgcount = @ - 1]

\* a counter that also ends the crawl from below zero
SpentOrBelow(count) == count <= 0

\* `if args.imgcount == 0` and `if args.pgcount == 0`
Spent(count) == count = 0

\* the finally clause's line on why the crawl ended
Finished(a, u) ==
    IF a.imgcount = 0 THEN <<"images">>
    ELSE IF a.pgcount = 0 THEN <<"pages">>
    ELSE IF u = 0 THEN <<"end">>
    ELSE <<>>

\* the except clause's line, then the finally clause's
Interrupted(a, u) == <<"interrupt">> \o Finished(a, u)

\* the crawl has ended
Ended == pc \in {"done", "exit", "interrupted", "crashed"}

InitImport ==
    /\ args \in [ignore_moves : {"None"}, screen : {FALSE}, verbose : {FALSE},
                 imgcount : ImgBudgets, pgcount : PgBudgets]
    /\ imgcap = args.imgcount
    /\ pgcap = args.pgcount
    /\ url = 1
    /\ soup \in Pages(1)
    /\ net = <<>>
    /\ context = [sections |-> <<>>]
    /\ grp = 1 /\ item = 1 /\ f = <<>> /\ trail = <<>>
    /\ paged = <<>> /\ said = <<>>
    /\ sec_idx = 1 /\ rec_idx = 1 /\ filtered = <<>> /\ fout = <<>>
    /\ declined = 0 /\ last_call = NoCall /\ accepted = <<>>
    /\ comment = NoComment
    /\ NoNaming
    /\ NoParse
    /\ seen = <<>> /\ listing = NoListing
    /\ pc = "page"

\* a group that opens a section whenever its breadcrumbs were not seen yet
StartsUnseenSection(all_sections, breadcrumbs_text) ==
    \A i \in 1..Len(all_sections) : all_sections[i].title # breadcrumbs_text

\* `not all_sections or breadcrumbs_text != all_sections[-1]['title']`
StartsSection(all_sections, breadcrumbs_text) ==
    \/ all_sections = <<>>
    \/ breadcrumbs_text # all_sections[Len(all_sections)].title

\* the record goes to the first section
AppendToFirst(all_sections, record) ==
    [all_sections EXCEPT ![1].records = Append(@, record)]

\* only a record that has comments is kept
AppendIfComments(all_sections, record) ==
    IF record.comments = <<>> THEN all_sections
    ELSE [all_sections EXCEPT ![Len(all_sections)].records = Append(@, record)]

\* all_sections[-1]['records'].append(record)
AppendRecord(all_sections, record) ==
    [all_sections EXCEPT ![Len(all_sections)].records = Append(@, record)]

\* top of the while loop: the first pass keeps the soup it was given, a
\* later pass makes new soup unless the section list is still empty; the
\* fetch can fail or be interrupted
StartPage ==
    /\ pc = "page"
    /\ url # 0
    /\ IF context.sections = <<>>
         THEN /\ pc' = "group"
              /\ UNCHANGED <<soup, net, f, said>>
         ELSE /\ net' = TurnPage(net)
              /\ \E fetch \in Fetches :
                   CASE fetch = "ok" ->
                          /\ soup' \in Pages(url)
                          /\ pc' = "group"
                          /\ UNCHANGED <<f, said>>
                     [] fetch = "error" ->
                          /\ f' = Append(f, context)
                          /\ said' = Finished(args, url)
                          /\ pc' = "crashed"
                          /\ soup' = soup
                     [] fetch = "interrupt" ->
                          /\ f' = Append(f, context)
                          /\ said' = Interrupted(args, url)
                          /\ pc' = "interrupted"
                          /\ soup' = soup
    /\ grp' = 1
    /\ UNCHANGED <<args, context, url, item, trail, comment, imgcap, pgcap,
                   paged>>
    /\ UNCHANGED <<seen, listing>>
    /\ UNCHANGED exportVars
    /\ UNCHANGED nameVars
    /\ UNCHANGED parseVars

\* process_list_page, head of the loop over page_sections: a new section
\* or another chunk of the previous one
StartGroup ==
    /\ pc = "group"
    /\ grp <= Len(soup.groups)
    /\ LET breadcrumbs_text == soup.groups[grp].title
       IN  /\ context' =
                 IF StartsSection(context.sections, breadcrumbs_text)
                   THEN [context EXCEPT !.sections =
                            Append(@, Section(breadcrumbs_text, url, <<>>))]
                   ELSE context
           /\ trail' = Append(trail, breadcrumbs_text)
    /\ item' = 1
    /\ pc' = "item"
    /\ UNCHANGED <<args, url, soup, grp, f, comment, imgcap, pgcap, net,
                   paged, said>>
    /\ UNCHANGED <<seen, listing>>
    /\ UNCHANGED exportVars
    /\ UNCHANGED nameVars
    /\ UNCHANGED parseVars

\* process_list_page, one pass of the loop over the links of the group
VisitRecord ==
    /\ pc = "item"
    /\ item <= soup.groups[grp].nitems
    /\ net' = VisitDelayed(net)
    /\ \E fetch \in Fetches :
         CASE fetch = "ok" ->
                LET record == RecordAt(100 * soup.no + 10 * grp + item)
                    ctx    == [context EXCEPT !.sections =
                                  AppendRecord(@, record)]
                    left   == SpendImage(args)
                IN  /\ context' = ctx
                    /\ seen' = Append(seen, record.url)
                    /\ args' = left
                    /\ IF Spent(left.imgcount)
                         THEN /\ f' = Append(f, ctx)
                              /\ said' = Finished(left, url)
                              /\ pc' = "exit"
                              /\ item' = item
                         ELSE /\ item' = item + 1
                              /\ UNCHANGED <<f, said, pc>>
           [] fetch = "error" ->
                /\ f' = Append(f, context)
                /\ said' = Finished(args, url)
                /\ pc' = "crashed"
                /\ UNCHANGED <<args, context, item, seen>>
           [] fetch = "interrupt" ->
                /\ f' = Append(f, context)
                /\ said' = Interrupted(args, url)
                /\ pc' = "interrupted"
                /\ UNCHANGED <<args, context, item, seen>>
    /\ UNCHANGED <<url, soup, grp, trail, comment, imgcap, pgcap, paged>>
    /\ UNCHANGED listing
    /\ UNCHANGED exportVars
    /\ UNCHANGED nameVars
    /\ UNCHANGED parseVars

\* the links of the group are exhausted
EndGroup ==
    /\ pc = "item"
    /\ item > soup.groups[grp].nitems
    /\ grp' = grp + 1
    /\ pc' = "group"
    /\ UNCHANGED <<args, context, url, soup, item, f, trail, comment, imgcap,
                   pgcap, net, paged, said>>
    /\ UNCHANGED <<seen, listing>>
    /\ UNCHANGED exportVars
    /\ UNCHANGED nameVars
    /\ UNCHANGED parseVars

\* the page is done: count it, stop on the budget, follow the next arrow
EndPage ==
    /\ pc = "group"
    /\ grp > Len(soup.groups)
    /\ args.pgcount > MinCount
    /\ LET left == SpendPage(args)
       IN  /\ args' = left
           /\ paged' = Append(paged, soup.no)
           /\ IF Spent(left.pgcount)
                THEN /\ f' = Append(f, context)
                     /\ said' = Finished(left, url)
                     /\ pc' = "exit"
                     /\ url' = url
                ELSE /\ url' = IF soup.next THEN soup.no + 1 ELSE 0
                     /\ pc' = "page"
                     /\ UNCHANGED <<f, said>>
    /\ UNCHANGED <<context, soup, grp, item, trail, comment, imgcap, pgcap,
                   net>>
    /\ UNCHANGED <<seen, listing>>
    /\ UNCHANGED exportVars
    /\ UNCHANGED nameVars
    /\ UNCHANGED parseVars

\* `while url:` fails: the finally clause dumps the context
EndCrawl ==
    /\ pc = "page"
    /\ url = 0
    /\ f' = Append(f, context)
    /\ said' = Finished(args, url)
    /\ pc' = "done"
    /\ UNCHANGED <<args, context, url, soup, grp, item, trail, comment,
                   imgcap, pgcap, net, paged>>
    /\ UNCHANGED <<seen, listing>>
    /\ UNCHANGED exportVars
    /\ UNCHANGED nameVars
    /\ UNCHANGED parseVars

NextImport ==
    StartPage \/ StartGroup \/ VisitRecord \/ EndGroup \/ EndPage \/ EndCrawl

SpecImport == InitImport /\ [][NextImport]_vars

(* ------------------------------- listing ------------------------------- *)

\* `len([1 for r in sec['records'] if r['comments']])`
WithComments(records) ==
    Len(SelectSeq(records, LAMBDA r : r.comments # <<>>))

\* one pass of the loop over snap['sections']: the running total decides
\* whether the section's first and last record are looked up; the lookup
\* on an empty list raises IndexError
ListSection(acc, sec) ==
    LET total == acc.total_recs + Len(sec.records)
        name  == <<sec.rank, sec.taxon>>
    IN  IF total = 0
          THEN [acc EXCEPT !.total_recs = total]
        ELSE IF sec.records = <<>>
          THEN [acc EXCEPT !.total_recs = total, !.raised = "IndexError"]
        ELSE [acc EXCEPT
                !.total_recs = total,
                !.recs_with_comments = @ + WithComments(sec.records),
                !.sections =
                    (name :> [first |-> sec.records[1].url,
                              last  |-> sec.records[Len(sec.records)].url])
                    @@ @]

\* the loop over snap['sections'], left at the first exception
RECURSIVE ListSections(_, _)
ListSections(acc, secs) ==
    IF secs = <<>> \/ acc.raised # "none" THEN acc
    ELSE ListSections(ListSection(acc, Head(secs)), Tail(secs))

\* list_snapshots for one snapshot file: the panel is printed when the
\* loop has come through
list_snapshots(snap) ==
    LET acc == ListSections(NoListing, snap.sections)
    IN  [acc EXCEPT !.printed = (acc.raised = "none")]

\* `bgc list` after the crawl has ended and left its snapshot
ListSnapshot ==
    /\ Ended
    /\ listing = NoListing
    /\ listing' = list_snapshots(f[Len(f)])
    /\ UNCHANGED <<args, context, url, soup, grp, item, f, trail, comment,
                   imgcap, pgcap, net, paged, said, seen, pc>>
    /\ UNCHANGED exportVars
    /\ UNCHANGED nameVars
    /\ UNCHANGED parseVars

NextList == NextImport \/ ListSnapshot

SpecList == InitImport /\ [][NextList]_vars

(* ----------------------------- output name ----------------------------- *)

\* str() of a number that is not negative
RECURSIVE Str(_)
Str(n) ==
    LET digit == <<"0", "1", "2", "3", "4", "5", "6", "7", "8", "9">>
    IN  IF n < 10 THEN <<digit[n + 1]>>
        ELSE Str(n \div 10) \o <<digit[(n % 10) + 1]>>

\* f"{file_name} ({ver})"
Versioned(name, v) == name \o <<" ", "(">> \o Str(v) \o <<")">>

\* "../data/" + name + ".json" for import, "../comments/" + name + ".html"
\* for export
PathOf(a, name) ==
    IF a.action = "import"
      THEN <<"../data/">> \o name \o <<".json">>
      ELSE <<"../comments/">> \o name \o <<".html">>

\* `file_name = taxon` in import, `fname_out = args.fname or args.taxon` in
\* export
BaseName(a) ==
    IF a.action = "export" /\ a.fname # <<>> THEN a.fname ELSE a.taxon

\* the candidate built on the previous candidate
VernameOnto(name, candidate, v) == Versioned(candidate, v)

\* `vername = f"{file_name} ({ver})"`
Vername(name, candidate, v) == Versioned(name, v)

\* the files that can be in the output directory: the base name, its
\* numbered versions, and a name that only looks like one
Candidates(a) ==
    { PathOf(a, BaseName(a)) }
    \cup { PathOf(a, Versioned(BaseName(a), v)) : v \in 1..MaxVer }
    \cup { PathOf(a, BaseName(a) \o <<"(", "1", ")">>) }

InitName ==
    /\ args \in [action : {"import", "export"}, taxon : {<<"t">>},
                 fname : {<<>>, <<"f">>}, replace : BOOLEAN]
    /\ args.action = "import" => args.fname = <<>>
    /\ files \in SUBSET Candidates(args)
    /\ ver = 1
    /\ vername = <<>>
    /\ file_name = <<>>
    /\ pc = "name"
    /\ context = [sections |-> <<>>]
    /\ sec_idx = 1 /\ rec_idx = 1 /\ filtered = <<>> /\ fout = <<>>
    /\ declined = 0 /\ last_call = NoCall /\ accepted = <<>>
    /\ comment = NoComment
    /\ NoCrawl
    /\ NoParse
    /\ written = {}

\* the base name; with --replace it is the name, without it the search for
\* a free name starts from it
PickName ==
    /\ pc = "name"
    /\ IF args.replace
         THEN /\ file_name' = PathOf(args, BaseName(args))
              /\ pc' = "named"
              /\ UNCHANGED <<ver, vername>>
         ELSE /\ file_name' = BaseName(args)
              /\ ver' = 1
              /\ vername' = BaseName(args)
              /\ pc' = "probe"
    /\ UNCHANGED <<args, context, comment, files, written>>
    /\ UNCHANGED exportVars
    /\ UNCHANGED importVars
    /\ UNCHANGED parseVars

\* one pass of `while exists(...)`: the candidate is taken, try the next
ProbeName ==
    /\ pc = "probe"
    /\ PathOf(args, vername) \in files
    /\ vername' = Vername(file_name, vername, ver)
    /\ ver' = ver + 1
    /\ UNCHANGED <<args, context, comment, files, file_name, written, pc>>
    /\ UNCHANGED exportVars
    /\ UNCHANGED importVars
    /\ UNCHANGED parseVars

\* the candidate is free: it is the name
TakeName ==
    /\ pc = "probe"
    /\ PathOf(args, vername) \notin files
    /\ file_name' = PathOf(args, vername)
    /\ pc' = "named"
    /\ UNCHANGED <<args, context, comment, files, ver, vername, written>>
    /\ UNCHANGED exportVars
    /\ UNCHANGED importVars
    /\ UNCHANGED parseVars

NextName == PickName \/ ProbeName \/ TakeName

SpecName == InitName /\ [][NextName]_vars

(* ------------------------- claims: comment styling --------------------- *)

\* position of the last character that is not whitespace (0 if there is none)
LastInk(s) ==
    LET ink == { k \in 1..Len(s) : s[k] \notin Whitespace }
    IN  IF ink = {} THEN 0 ELSE CHOOSE k \in ink : \A m \in ink : m <= k

\* "Moved from <one or more characters>." and then only whitespace, read off
\* the text without the pattern: the text stripped of trailing whitespace
\* ends in a period, starts with the eleven characters "moved from " in any
\* case, and has at least one character, all on one line, between the two
IsMoveNotice(s) ==
    LET e == LastInk(s) IN
    /\ e >= 13
    /\ s[e] = "."
    /\ [k \in 1..11 |-> Lower(s[k])]
           = <<"m", "o", "v", "e", "d", " ", "f", "r", "o", "m", " ">>
    /\ \A k \in 12..(e - 1) : s[k] # "\n"

Called == last_call.url # 0

\* the user was asked and answered with a word starting with ch
Answered(ch) == last_call.prompted /\ last_call.cmd = ch

\* the fields of a comment that say which comment it is
Plain(c) == [body |-> c.body, byline |-> c.byline, depth |-> c.depth]

PlainAll(comms) == [k \in 1..Len(comms) |-> Plain(comms[k])]

\* read off the bodies: no comment of the thread is substantive
OnlyMoves(comms) == \A k \in 1..Len(comms) : IsMoveNotice(comms[k].body)

Substantive(comms) == SelectSeq(comms, LAMBDA c : ~IsMoveNotice(c.body))

UrlsOf(records) == { records[k].url : k \in 1..Len(records) }

\* C1: when the user answers 'n' or 'no' at the screening prompt,
\* filter_record returns no record and the record is not among the records
\* kept for the section.
C1_NoDiscardsRecord ==
    Answered("n") =>
        /\ last_call.ret = "None"
        /\ last_call.url \notin UrlsOf(filtered)

\* C2 as stated: a record with comments, all of them move comments, is
\* discarded under every policy, policy none included.
C2_AllMovesDiscardedUnderEveryPolicy ==
    (Called /\ last_call.before # <<>> /\ OnlyMoves(last_call.before)
        /\ last_call.raised = "none")
    => last_call.ret = "None"

\* C2 amended: a record with comments, all of them move comments, is
\* discarded without a prompt under the policies always and nochat; under
\* policy none it is not discarded for its move comments: it goes on to
\* screening if that is on, and with screening off it is returned with all
\* its comments.
C2_AllMovesDiscardedWhenPolicySet ==
    (Called /\ last_call.before # <<>> /\ OnlyMoves(last_call.before))
    => /\ last_call.policy \in {"always", "nochat"}
            => last_call.ret = "None" /\ ~last_call.prompted
                 /\ last_call.raised = "none"
       /\ last_call.policy = "None"
            => /\ last_call.prompted = last_call.screen
               /\ ~last_call.screen
                    => /\ last_call.ret = "rec"
                       /\ PlainAll(last_call.after) = PlainAll(last_call.before)

\* a moves-only record was discarded under nochat
C2_Witness ==
    /\ Called /\ last_call.before # <<>> /\ OnlyMoves(last_call.before)
    /\ last_call.policy = "nochat"
    /\ last_call.ret = "None"

C4_NochatAllOrNothing ==
    (Called /\ last_call.policy = "nochat" /\ last_call.raised = "none")
    => /\ last_call.ret = "None" <=> OnlyMoves(last_call.before)
       /\ last_call.ret = "rec"
            => PlainAll(last_call.after) = PlainAll(last_call.before)

\* an interleaved thread was kept whole under nochat
C4_Witness ==
    /\ Called /\ last_call.policy = "nochat"
    /\ Len(last_call.before) = 3
    /\ ~OnlyMoves(last_call.before)
    /\ last_call.ret = "rec"
    /\ Len(last_call.after) = 3

\* C5: a record without comments is discarded by filter_record whatever
\* the policy and the screen flag, and the user is not asked about it.
C5_EmptyThreadDiscarded ==
    (Called /\ last_call.before = <<>>)
    => /\ last_call.ret = "None"
       /\ last_call.raised = "none"
       /\ ~last_call.prompted

\* a record without comments was discarded with screening on and no policy
C5_Witness ==
    /\ Called /\ last_call.before = <<>>
    /\ last_call.screen /\ last_call.policy = "None"
    /\ last_call.ret = "None"

(* ---------------------------- claims: export --------------------------- *)

\* the render the finally clause wrote
Rendered == fout[Len(fout)]

\* every record of the render
RenderedUrls ==
    UNION { UrlsOf(Rendered.sections[i].records)
            : i \in 1..Len(Rendered.sections) }

\* the record is at or after the position the loops have reached: it has
\* not gone through filter_record, or is the one the call in progress is on
\* (record j of section i has the url 10 * i + j)
NotYetFiltered(u) ==
    \/ u \div 10 > sec_idx
    \/ u \div 10 = sec_idx /\ u % 10 >= rec_idx

\* C7: after 'quit' the rendered output holds only records already
\* accepted: no section after the one being filtered, of that one exactly
\* the records kept so far (and not the section if there are none), and
\* neither a record the user declined, nor the record quit was entered on,
\* nor a later one.
C7_QuitKeepsOnlyAccepted ==
    (pc = "aborted" /\ last_call.raised = "SystemExit")
    => /\ Len(Rendered.sections) <= sec_idx
       /\ Len(Rendered.sections) = sec_idx
             => /\ filtered # <<>>
                /\ Rendered.sections[sec_idx].records = filtered
       /\ Len(Rendered.sections) < sec_idx => filtered = <<>>
       /\ \A u \in RenderedUrls : ~NotYetFiltered(u)
       /\ declined \notin RenderedUrls

\* C8: after an interrupt during screening the rendered output holds only
\* the sections and records processed so far: no section after the one
\* being filtered, no record that has not been filtered yet, and no record
\* the user declined.
C8_InterruptKeepsOnlyFiltered ==
    (pc = "aborted" /\ last_call.raised = "KeyboardInterrupt")
    => /\ Len(Rendered.sections) <= sec_idx
       /\ \A u \in RenderedUrls : ~NotYetFiltered(u)
       /\ declined \notin RenderedUrls

\* the section of the snapshot a record is in
SectionOf(u) == u \div 10

\* the record is among those kept: in `filtered` while its section is being
\* filtered, in the section's record list afterwards
KeptSoFar(u) ==
    IF SectionOf(u) = sec_idx
      THEN u \in UrlsOf(filtered)
      ELSE u \in UrlsOf(context.sections[SectionOf(u)].records)

\* the latest call was decided by the policy filter alone
DecidedByPolicy(c) ==
    /\ ~c.prompted
    /\ c.raised = "none"
    /\ c.ret = "None" <=>
          \/ c.before = <<>>
          \/ c.policy # "None" /\ OnlyMoves(c.before)

\* C9: the answer 'auto' keeps the record it is given for and switches
\* screening and verbose echo off; with screening off it stays off, no
\* later record brings up a prompt, and each is decided by the policy alone.
C9_AutoEndsScreening ==
    /\ [](Answered("a") =>
             /\ last_call.ret = "rec"
             /\ KeptSoFar(last_call.url)
             /\ ~args.screen
             /\ ~args.verbose)
    /\ [][~args.screen =>
             /\ ~args'.screen
             /\ last_call' # last_call => DecidedByPolicy(last_call')]_vars

\* after an 'auto' (verbose is off) a record with comments went through
\* without a prompt
C9_Witness ==
    /\ ~args.screen /\ ~args.verbose
    /\ Called /\ last_call.screen = FALSE
    /\ last_call.before # <<>>
    /\ ~last_call.prompted
    /\ last_call.ret = "rec"

(* ---------------------------- claims: import --------------------------- *)

\* a sequence without the elements that repeat their predecessor
RECURSIVE Runs(_)
Runs(t) ==
    IF Len(t) <= 1 THEN t
    ELSE LET r == Runs(SubSeq(t, 1, Len(t) - 1))
         IN  IF t[Len(t)] = t[Len(t) - 1] THEN r ELSE Append(r, t[Len(t)])

TitlesOf(all_sections) == [i \in 1..Len(all_sections) |-> all_sections[i].title]

\* C10: a group opens a new, empty section exactly when there is no section
\* yet or its breadcrumbs differ from the title of the last one, so that
\* the section titles are the groups' breadcrumbs with immediate repeats
\* dropped ([A, A, B, A] gives A, B, A); no other step adds a section, and
\* a record visited is appended to the last section.
C10_SectionPerRunOfBreadcrumbs ==
    /\ [](TitlesOf(context.sections) = Runs(trail))
    /\ [][LET old == context.sections
              new == context'.sections
          IN  /\ Len(new) > Len(old)
                   => /\ Len(trail') = Len(trail) + 1
                      /\ new = Append(old, new[Len(new)])
                      /\ new[Len(new)].records = <<>>
              /\ (Len(new) = Len(old) /\ new # old)
                   => /\ \A i \in 1..(Len(old) - 1) : new[i] = old[i]
                      /\ new[Len(new)] =
                            [old[Len(old)] EXCEPT !.records =
                                Append(@, new[Len(new)].records[Len(new[Len(new)].records)])]
              /\ Len(new) >= Len(old)]_vars

\* the groups A, A, B, A have been met and there are three sections
C10_Witness ==
    /\ trail = <<"A", "A", "B", "A">>
    /\ Len(context.sections) = 3
    /\ TitlesOf(context.sections) = <<"A", "B", "A">>

(* ---------------------------- claims: budgets -------------------------- *)

\* the records of a section list, counted
RECURSIVE Count(_)
Count(secs) ==
    IF secs = <<>> THEN 0 ELSE Len(Head(secs).records) + Count(Tail(secs))

\* the record pages visited and parsed so far
Visited == Count(context.sections)

\* the dump the finally clause wrote
Dumped == f[Len(f)]

\* C11: with an image budget N >= 1 the counter is N less the record pages
\* visited, never more than N are visited, the traversal stops when the
\* N-th has been visited, wherever in the page or group that is, the stop
\* on the image budget comes at the N-th and not before, and nothing is
\* done after the stop.
C11_ImageBudgetStopsAtN ==
    /\ [](imgcap >= 1 =>
             /\ args.imgcount = imgcap - Visited
             /\ Visited <= imgcap
             /\ Visited = imgcap => pc = "exit" /\ Count(Dumped.sections) = imgcap
             /\ (pc = "exit" /\ args.pgcount # 0) => Visited = imgcap)
    /\ [][pc # "exit"]_vars

\* the image budget stops the crawl inside a group, with links and a group
\* or a page left
C11_Witness ==
    /\ imgcap = 2
    /\ pc = "exit"
    /\ Visited = 2
    /\ item < soup.groups[grp].nitems
    /\ grp < Len(soup.groups) \/ soup.next

\* C12: the page counter goes down by one exactly when a list page is
\* completed; with a page budget P >= 1 the counter is P less the pages
\* completed, the traversal stops when the P-th is completed, the stop on
\* the page budget comes at the P-th and not before, and nothing is done
\* after the stop.
C12_PageBudgetStopsAtP ==
    /\ [](pgcap >= 1 =>
             /\ args.pgcount = pgcap - Len(paged)
             /\ Len(paged) <= pgcap
             /\ Len(paged) = pgcap => pc = "exit"
             /\ (pc = "exit" /\ args.imgcount # 0) => Len(paged) = pgcap)
    /\ [][/\ pc # "exit"
          /\ paged' # paged <=> args'.pgcount = args.pgcount - 1
          /\ paged' # paged => paged' = Append(paged, soup.no)
          /\ args'.pgcount # args.pgcount => pc = "group" /\ grp > Len(soup.groups)
         ]_vars

\* the page budget stops the crawl after its second page, or after its
\* first with a next page left
C12_Witness ==
    /\ pc = "exit"
    /\ args.pgcount = 0
    /\ \/ pgcap = 2 /\ paged = <<1, 2>> /\ Visited > 0
       \/ pgcap = 1 /\ paged = <<1>> /\ soup.next /\ Visited > 0

(* ----------------------- claims: interrupt and failure ----------------- *)

\* the group at hand is the one that opened the last section
OpenedSection ==
    Len(trail) = 1 \/ trail[Len(trail) - 1] # trail[Len(trail)]

\* the snapshot has an empty entry for a group none of whose records has
\* been processed: the interrupt came on the first link of the group at
\* hand, which had opened a section
EmptyEntry ==
    /\ pc = "item"
    /\ item = 1
    /\ OpenedSection
    /\ context.sections[Len(context.sections)].records = <<>>

\* C13: an interrupt during the crawl loop still writes the snapshot, the
\* snapshot holds exactly the sections and records appended before the
\* interrupt, in order, and it holds no empty entry for a group none of
\* whose records has been processed.
C13_InterruptFlushesProcessedOnly ==
    [][pc' = "interrupted" =>
          /\ f' = Append(f, context)
          /\ ~EmptyEntry]_vars

\* C14: a failure on a record page does not end the traversal: the record
\* is skipped and the loop goes on with the next link of the group.
C14_RecordFailureSkipsRecord ==
    [][(/\ pc = "item"
        /\ item <= soup.groups[grp].nitems
        /\ context' = context
        /\ pc' # "interrupted")
       => /\ pc' = "item"
          /\ item' = item + 1
          /\ f' = f]_vars

(* --------------------- claims: pagination and ending ------------------- *)

\* C15: the page the driver processes is the page at the current URL; when
\* a page is completed with no budget exhausted the URL becomes that page's
\* next-page URL, or none if it has no next arrow; and the traversal is
\* done only after a page without a next arrow.
C15_FollowsNextPage ==
    /\ pc \in {"group", "item"} => soup.no = url
    /\ (pc = "page" /\ paged # <<>>)
          => url = IF soup.next THEN soup.no + 1 ELSE 0
    /\ pc = "done" => ~soup.next /\ url = 0

\* C16: a traversal that has ended has reported exactly one reason, and it
\* is the cause: the image budget iff the image counter is zero, the page
\* budget iff the page counter is zero, the end of the list iff the loop
\* ran out of next-page links, the interrupt iff an interrupt ended the
\* loop.
C16_OneTrueReason ==
    Ended =>
       /\ Len(said) = 1
       /\ said[1] = "images" <=> args.imgcount = 0
       /\ said[1] = "pages" <=> args.pgcount = 0
       /\ said[1] = "end" <=> pc = "done"
       /\ said[1] = "interrupt" <=> pc = "interrupted"

\* C17: no fetch directly follows another fetch: between any two there is
\* the wait.
C17_DelayBetweenFetches ==
    net # <<"fetch", "fetch">>


(* --------------------------- start of an export ------------------------ *)

\* f"data/{args.taxon}.json"
SnapshotPath(a) == <<"data/">> \o a.taxon \o <<".json">>

CommentsDir == <<"../comments">>

\* an open for reading that never fails
OpenedAnyway(fs, path) == "ok"

\* `open(fname_in, "r")`: a path that does not exist raises
OpenForReading(fs, path) ==
    IF path \in fs THEN "ok" ELSE "FileNotFoundError"

\* the snapshots whose loading is followed here
Loadable == { s \in Snapshots : Count(s.sections) <= 1 }

\* export_taxon is called: the snapshot may be there or not, and so may the
\* output directory and files in it
InitStart ==
    /\ args \in [action : {"export"}, taxon : {<<"t">>},
                 fname : {<<>>, <<"f">>}, replace : BOOLEAN]
    /\ files \in SUBSET (Candidates(args)
                            \cup {SnapshotPath(args), CommentsDir})
    /\ files \cap Candidates(args) # {} => CommentsDir \in files
    /\ ver = 1
    /\ vername = <<>>
    /\ file_name = <<>>
    /\ written = {}
    /\ pc = "load"
    /\ context = [sections |-> <<>>]
    /\ sec_idx = 1 /\ rec_idx = 1 /\ filtered = <<>> /\ fout = <<>>
    /\ declined = 0 /\ last_call = NoCall /\ accepted = <<>>
    /\ comment = NoComment
    /\ NoCrawl
    /\ NoParse

\* the check that only prints, the open and json.load, and the mkdir of
\* the output directory if it is not there
LoadSnapshot ==
    /\ pc = "load"
    /\ IF OpenForReading(files, SnapshotPath(args)) = "ok"
         THEN /\ context' \in Loadable
              /\ files' = files \cup {CommentsDir}
              /\ written' = written \cup ({CommentsDir} \ files)
              /\ pc' = "name"
         ELSE /\ pc' = "error"
              /\ UNCHANGED <<context, files, written>>
    /\ UNCHANGED <<args, comment, ver, vername, file_name>>
    /\ UNCHANGED exportVars
    /\ UNCHANGED importVars
    /\ UNCHANGED parseVars

\* `with open(fname_out, "w", ...)`: the file is created or emptied
OpenOutput ==
    /\ pc = "named"
    /\ files' = files \cup {file_name}
    /\ written' = written \cup {file_name}
    /\ pc' = "opened"
    /\ UNCHANGED <<args, context, comment, ver, vername, file_name>>
    /\ UNCHANGED exportVars
    /\ UNCHANGED importVars
    /\ UNCHANGED parseVars

NextStart == LoadSnapshot \/ NextName \/ OpenOutput

SpecStart == InitStart /\ [][NextStart]_vars

(* ---------------------------- comment depth --------------------------- *)

Digits == <<"0", "1", "2", "3", "4", "5", "6", "7", "8", "9">>

\* the number a decimal digit stands for
DigitValue(ch) == CHOOSE n \in 0..9 : Digits[n + 1] = ch

\* int() of a string of decimal digits
RECURSIVE int(_)
int(str) ==
    IF str = <<>> THEN 0
    ELSE 10 * int(SubSeq(str, 1, Len(str) - 1)) + DigitValue(str[Len(str)])

\* a depth that goes to the nearest level
DepthRounded(tag) ==
    IF tag.nested THEN (int(tag.width) + 12) \div 25 ELSE 0

\* `int(ctag.parent.previous_sibling['width']) // 25` if the comment's
\* parent is a td, else 0
Depth(tag) ==
    IF tag.nested THEN int(tag.width) \div 25 ELSE 0

\* the comment nodes parse_comment can be given: in the second cell of an
\* indent table, whose first cell has a width, or not in a table
Comments ==
    { [nested |-> TRUE, width |-> w] :
         w \in UNION { [1..k -> Range(Digits)] : k \in 1..MaxDigits } }
    \cup { [nested |-> FALSE, width |-> <<>>] }

InitDepth ==
    /\ ctag \in Comments
    /\ comment = NoComment
    /\ title_tag = <<>>
    /\ rdict = [title |-> <<>>]
    /\ args = [verbose |-> FALSE]
    /\ context = [sections |-> <<>>]
    /\ sec_idx = 1 /\ rec_idx = 1 /\ filtered = <<>> /\ fout = <<>>
    /\ declined = 0 /\ last_call = NoCall /\ accepted = <<>>
    /\ NoCrawl
    /\ NoNaming
    /\ pc = "comment"

\* parse_comment: the depth of the comment dict
ParseComment ==
    /\ pc = "comment"
    /\ comment' = [comment EXCEPT !.depth = Depth(ctag)]
    /\ pc' = "parsed"
    /\ UNCHANGED <<args, context, ctag, title_tag, rdict>>
    /\ UNCHANGED exportVars
    /\ UNCHANGED importVars
    /\ UNCHANGED nameVars

NextDepth == ParseComment

SpecDepth == InitDepth /\ [][NextDepth]_vars

(* ----------------------------- record title --------------------------- *)

\* a text node of the title
Text(str) == [name |-> "text", alt |-> <<>>, string |-> str]

\* an <img> node of the title with its alt text
Img(alt) == [name |-> "img", alt |-> alt, string |-> <<>>]

Male == <<"M", "a", "l", "e">>

Female == <<"F", "e", "m", "a", "l", "e">>

\* the child nodes a title node can have
Nodes ==
    { Text(<<"A", "b">>), Text(<<"A", "b", " ">>), Text(<<" ">>),
      Img(Male), Img(Female) }

\* str.lower() of a text
LowerAll(str) == [k \in 1..Len(str) |-> Lower(str[k])]

\* title_tag.find_all("img")
find_all_img(children) == SelectSeq(children, LAMBDA n : n.name = "img")

\* title_tag.append(str): a new text node after the last child
append(children, str) == Append(children, Text(str))

\* title_tag.img.decompose(): the first <img> is taken out of the tree
RECURSIVE decompose_img(_)
decompose_img(children) ==
    IF children = <<>> THEN <<>>
    ELSE IF Head(children).name = "img" THEN Tail(children)
    ELSE <<Head(children)>> \o decompose_img(Tail(children))

\* lines 104-111: the symbols are replaced by text at the end of the tag
ReplaceSymbols(children) ==
    LET symbols == find_all_img(children)
    IN  IF symbols = <<>> THEN children
        ELSE LET one == decompose_img(
                            append(children, LowerAll(symbols[1].alt)))
             IN  IF Len(symbols) = 2
                   THEN decompose_img(
                            append(one, <<" ", "&", " ">>
                                        \o LowerAll(symbols[2].alt)))
                   ELSE one

\* decode_contents(): the text nodes as they are, an <img> as markup
RECURSIVE decode_contents(_)
decode_contents(children) ==
    IF children = <<>> THEN <<>>
    ELSE (IF Head(children).name = "img"
            THEN <<"<img alt=\"">> \o Head(children).alt \o <<"\"/>">>
            ELSE Head(children).string)
         \o decode_contents(Tail(children))

\* str.strip()
RECURSIVE strip(_)
strip(str) ==
    IF str = <<>> THEN <<>>
    ELSE IF Head(str) \in Whitespace THEN strip(Tail(str))
    ELSE IF str[Len(str)] \in Whitespace
      THEN strip(SubSeq(str, 1, Len(str) - 1))
    ELSE str

InitTitle ==
    /\ title_tag \in SeqsUpTo(Nodes, MaxNodes)
    /\ rdict = [title |-> <<>>]
    /\ ctag = [nested |-> FALSE, width |-> <<>>]
    /\ comment = NoComment
    /\ args = [verbose |-> FALSE]
    /\ context = [sections |-> <<>>]
    /\ sec_idx = 1 /\ rec_idx = 1 /\ filtered = <<>> /\ fout = <<>>
    /\ declined = 0 /\ last_call = NoCall /\ accepted = <<>>
    /\ NoCrawl
    /\ NoNaming
    /\ pc = "title"

\* parse_record, the title: the work is done on a copy of the node
ParseTitle ==
    /\ pc = "title"
    /\ rdict' = [rdict EXCEPT
                    !.title = strip(decode_contents(ReplaceSymbols(title_tag)))]
    /\ pc' = "titled"
    /\ UNCHANGED <<args, context, comment, ctag, title_tag>>
    /\ UNCHANGED exportVars
    /\ UNCHANGED importVars
    /\ UNCHANGED nameVars

NextTitle == ParseTitle

SpecTitle == InitTitle /\ [][NextTitle]_vars

(* --------------------------- claims: output name ----------------------- *)

\* the path of the base name, and of its N-th numbered version
BasePath == PathOf(args, BaseName(args))

NumberedPath(n) == PathOf(args, Versioned(BaseName(args), n))

\* C18: without overwrite the name chosen is the base name if that is
\* free, otherwise 'base (N)' for the smallest N >= 1 for which that is
\* free, and it never names an existing file; with overwrite it is the base
\* name whether or not that exists.
C18_FirstFreeName ==
    pc = "named" =>
       IF args.replace
         THEN file_name = BasePath
         ELSE /\ file_name \notin files
              /\ BasePath \notin files => file_name = BasePath
              /\ BasePath \in files =>
                    \E n \in 1..(MaxVer + 1) :
                       /\ file_name = NumberedPath(n)
                       /\ \A m \in 1..(n - 1) : NumberedPath(m) \in files

\* the base name and its first version exist, and so does a name that only
\* looks like a version; the second version is chosen
C18_Witness ==
    /\ pc = "named"
    /\ ~args.replace
    /\ BasePath \in files
    /\ NumberedPath(1) \in files
    /\ NumberedPath(2) \notin files
    /\ file_name = NumberedPath(2)

(* ------------------------ claims: frame of filtering ------------------- *)

\* a comment as parse_comment built it
Parsed(c) ==
    [subj |-> c.subj, body |-> c.body, byline |-> c.byline, depth |-> c.depth]

\* C19: every comment of a record that filter_record returns has the
\* subject, body, byline and depth of a comment the record had before the
\* call.
C19_CommentsNotMutated ==
    (Called /\ last_call.ret = "rec")
    => \A k \in 1..Len(last_call.after) :
          \E j \in 1..Len(last_call.before) :
             Parsed(last_call.after[k]) = Parsed(last_call.before[j])

\* C20: under policy none a record that filter_record returns has all the
\* comments it had before the call, in their order (each the comment with
\* the same body, byline and depth), move comments included.
C20_NoneKeepsAllComments ==
    (Called /\ last_call.policy = "None" /\ last_call.ret = "rec")
    => PlainAll(last_call.after) = PlainAll(last_call.before)

\* an interleaved thread came through whole under policy none, its move
\* comments included
C20_Witness ==
    /\ Called /\ last_call.policy = "None" /\ last_call.ret = "rec"
    /\ Len(last_call.after) = 3
    /\ ~last_call.after[1].highlight
    /\ last_call.after[2].highlight

(* ------------------------ claims: unset budgets ------------------------ *)

C27_EachPageOnceInChainOrder ==
    /\ \A k \in 1..Len(paged) : paged[k] = k
    /\ (paged # <<>> /\ pc \in {"group", "item"}) => soup.no = url

(* ------------------------ claims: frame of the crawl ------------------- *)

\* the fields of a section that describe it
Described(sec) ==
    [title |-> sec.title, rank |-> sec.rank, taxon |-> sec.taxon,
     own_page |-> sec.own_page, parent_page |-> sec.parent_page]

\* sequence s with one more element at its end
Grown(s, t) == Len(t) = Len(s) + 1 /\ SubSeq(t, 1, Len(s)) = s

\* C26: during the crawl the section list only grows at its end and only
\* its last section changes: in every step the sections before the last
\* are left as they are, the last section's records either stay or gain
\* one record at the end, no section's title, rank, taxon, own_page or
\* parent_page changes, and a section that is added starts without
\* records, its parent_page the URL of the list page being processed.
C26_SectionsAppendOnly ==
    [][LET old == context.sections
           new == context.sections'
           n   == Len(old)
       IN  /\ Len(new) = n \/ Grown(old, new)
           /\ \A i \in 1..n : Described(new[i]) = Described(old[i])
           /\ \A i \in 1..(n - 1) : new[i].records = old[i].records
           /\ n > 0 => \/ new[n].records = old[n].records
                       \/ /\ Len(new) = n
                          /\ Grown(old[n].records, new[n].records)
           /\ Len(new) > n => /\ new[n + 1].records = <<>>
                              /\ new[n + 1].parent_page = url
                              /\ new[n + 1].parent_page = soup.no]_vars

\* three sections A, B, A were opened on two list pages and each has its
\* records; the first still has the two records and the page it got on
\* page 1
C26_Witness ==
    /\ Len(context.sections) = 3
    /\ context.sections[1] =
          Section("A", 1, <<RecordAt(111), RecordAt(112)>>)
    /\ context.sections[2] = Section("B", 1, <<RecordAt(121)>>)
    /\ context.sections[3].title = "A"
    /\ context.sections[3].parent_page = 2
    /\ Len(context.sections[3].records) = 2

(* ------------------------ claims: order of screening ------------------- *)

\* read off the bodies: what the ignore-moves policy leaves of a thread
PostPolicy(policy, comms) ==
    IF policy = "always" THEN Substantive(comms) ELSE comms

\* the lines of the given type among the lines printed
Lines(console, type) == SelectSeq(console, LAMBDA e : e.type = type)

\* C25: screening comes after policy filtering and only for survivors:
\* filter_record prompts for a record exactly when screening is on at the
\* call and the record has comments and is not discarded by the
\* ignore-moves policy; what is presented at the prompt is the comment set
\* the policy left, and after the answer 'yes' the record is returned with
\* exactly that set.
C25_ScreeningAfterPolicy ==
    Called =>
      /\ last_call.prompted <=>
            /\ last_call.screen
            /\ last_call.before # <<>>
            /\ ~(last_call.policy # "None" /\ OnlyMoves(last_call.before))
      /\ last_call.prompted =>
            /\ PlainAll(last_call.after) =
                  PlainAll(PostPolicy(last_call.policy, last_call.before))
            /\ Lines(last_call.console, "screen") =
                  <<Ev("screen", Len(last_call.after), last_call.url)>>
            /\ last_call.console[Len(Lines(last_call.console, "skip")) + 1]
                  .type = "screen"
      /\ Answered("y") =>
            /\ last_call.ret = "rec"
            /\ PlainAll(last_call.after) =
                  PlainAll(PostPolicy(last_call.policy, last_call.before))

\* under policy always a thread of three comments was narrowed to the one
\* that is no move notice, that one was presented, and the answer 'yes'
\* returned the record with it
C25_Witness ==
    /\ Answered("y")
    /\ last_call.policy = "always"
    /\ Len(last_call.before) = 3
    /\ Len(last_call.after) = 1
    /\ last_call.ret = "rec"
    /\ Lines(last_call.console, "screen") = <<Ev("screen", 1, last_call.url)>>

(* ------------------------ claims: frame of the export ------------------ *)

\* the records among recs that belong to the i-th section of the snapshot
OfSection(recs, i) == SelectSeq(recs, LAMBDA r : r.url \div 10 = i)

\* the urls of the records, in their order
UrlSeq(recs) == [k \in 1..Len(recs) |-> recs[k].url]

RECURSIVE Saved(_)
Saved(secs) ==
    IF secs = <<>> THEN <<>>
    ELSE UrlSeq(Head(secs).records) \o Saved(Tail(secs))

C29_ListingCompletes ==
    listing # NoListing => (listing.printed /\ listing.raised = "none")

(* ------------------------ claims: missing snapshot --------------------- *)

\* C21: when the snapshot file of the taxon does not exist, the export
\* stops with an error at the load, and nothing has been created, opened
\* for writing or changed: no output directory, no output file, no name
\* chosen.
C21_MissingSnapshotStopsBeforeWriting ==
    SnapshotPath(args) \notin files =>
       /\ pc \in {"load", "error"}
       /\ written = {}
       /\ file_name = <<>>
       /\ context = [sections |-> <<>>]

\* the export stopped on a missing snapshot although it was told to
\* overwrite and the output file exists: the file was not touched
C21_Witness ==
    /\ pc = "error"
    /\ SnapshotPath(args) \notin files
    /\ args.replace
    /\ BasePath \in files
    /\ written = {}

(* ------------------------ claims: comment depth ------------------------ *)

\* the indent read off the digits of the width: units, then tens, ...
Indent(w) ==
    LET n == Len(w)
        Pow10(k) == IF k = 0 THEN 1 ELSE IF k = 1 THEN 10
                    ELSE IF k = 2 THEN 100 ELSE 1000
        RECURSIVE Sum(_)
        Sum(k) == IF k > n THEN 0
                  ELSE DigitValue(w[k]) * Pow10(n - k) + Sum(k + 1)
    IN  Sum(1)

\* C23: the depth of a parsed comment is the whole number of 25-unit
\* steps in its indent (the largest d with 25 * d <= indent) when the
\* comment is nested in an indent cell, and 0 when it is not; indent 0
\* gives 0, 25 gives 1, 74 gives 2, and the depth is never negative.
C23_DepthIsFloorOfIndent ==
    pc = "parsed" =>
       /\ comment.depth >= 0
       /\ ~ctag.nested => comment.depth = 0
       /\ ctag.nested =>
             /\ 25 * comment.depth <= Indent(ctag.width)
             /\ Indent(ctag.width) < 25 * (comment.depth + 1)
       /\ (ctag.nested /\ ctag.width = <<"0">>) => comment.depth = 0
       /\ (ctag.nested /\ ctag.width = <<"2", "5">>) => comment.depth = 1
       /\ (ctag.nested /\ ctag.width = <<"7", "4">>) => comment.depth = 2

\* a comment nested behind an indent of 74 was parsed and got depth 2
C23_Witness ==
    /\ pc = "parsed"
    /\ ctag = [nested |-> TRUE, width |-> <<"7", "4">>]
    /\ comment.depth = 2

(* ------------------------ claims: sex markers in titles ---------------- *)

\* the text of the nodes that are no icons, one after the other
RECURSIVE TextOf(_)
TextOf(children) ==
    IF children = <<>> THEN <<>>
    ELSE Head(children).string \o TextOf(Tail(children))

\* the labels of the icons, in the order they are met
Labels(children) ==
    LET icons == SelectSeq(children, LAMBDA n : n.name = "img")
    IN  [k \in 1..Len(icons) |-> icons[k].alt]

\* the label as it is written into the title
Token(label) ==
    IF label = Male THEN <<"m", "a", "l", "e">>
    ELSE <<"f", "e", "m", "a", "l", "e">>

\* C24: a title with base text T and one sex marker labelled L comes out
\* as T, a space, and L in lower case; with two markers as T, a space, and
\* 'l1 & l2' in the order met; the icons are gone from it; a title without
\* markers comes out as it is.
C24_SexMarkersAppended ==
    pc = "titled" =>
       LET T == strip(TextOf(title_tag))
           L == Labels(title_tag)
       IN  T # <<>> =>
             /\ Len(L) = 0 => rdict.title = T
             /\ Len(L) = 1 => rdict.title = T \o <<" ">> \o Token(L[1])
             /\ Len(L) = 2 =>
                   rdict.title = T \o <<" ">> \o Token(L[1])
                                   \o <<" ", "&", " ">> \o Token(L[2])

====
